---- MODULE Spec2Model ----
(***************************************************************************)
(* A model of scripts/pipeline.py: the identity token of a country name,   *)
(* the two table builders, the parquet upsert and the pipeline run.        *)
(*                                                                         *)
(* A text is a sequence of one-character strings.  A cell of a frame is a  *)
(* record [kind, text, num, exp]:                                          *)
(*   kind "str"  : the Python str `text`                                   *)
(*   kind "nan"  : float NaN (an empty CSV field)                          *)
(*   kind "none" : Python None (a column assigned None)                    *)
(*   kind "num"  : the number num / 10^exp                                 *)
(*   kind "md5"  : the hex digest of the UTF-8 encoding of `text`          *)
(* A DataFrame is [columns |-> sequence of labels, rows |-> sequence of    *)
(* rows], a row being the sequence of its cells in column order.  Column   *)
(* labels may repeat, as pandas allows.  A file is a frame with a flag     *)
(* `exists`; a CSV file in the olympics directory also has a `name`.       *)
(***************************************************************************)
EXTENDS Integers, Sequences, FiniteSets, TLC

VARIABLES
    parquet,            \* outputs/: the three parquet files
    pc,                 \* "idle", then "built", "done" or "raised"
    runs,               \* the runs of the pipeline so far
    countries_written,  \* run_pipeline's local
    olympics_written,   \* run_pipeline's local
    missing,            \* the sources the last run found absent
    raised,             \* the exception the last call raised, "" when none
    source,             \* the input the last builder call read
    built,              \* the frame the last builder call returned
    call                \* the last direct call of upsert_parquet

vars == <<parquet, pc, runs, countries_written, olympics_written, missing, raised,
          source, built, call>>

----------------------------------------------------------------------------
(* Bounds of the inputs.                                                   *)

MaxText == 3        \* longest text of a numeric-like CSV field
MaxName == 2        \* longest text of a country-name CSV field
MaxBatch == 2       \* most rows of a batch handed to upsert_parquet directly
MaxCsvRows == 2     \* most rows of the countries CSV file of a run
MaxFileRows == 1    \* most rows of an olympics CSV file of a run
MaxFiles == 2       \* most CSV files in the olympics directory
MaxRuns == 2        \* most runs of the pipeline

----------------------------------------------------------------------------
(* Cells.                                                                  *)

Str(t) == [kind |-> "str", text |-> t, num |-> 0, exp |-> 0]
NaN == [kind |-> "nan", text |-> <<>>, num |-> 0, exp |-> 0]
None == [kind |-> "none", text |-> <<>>, num |-> 0, exp |-> 0]
Num(n, e) == [kind |-> "num", text |-> <<>>, num |-> n, exp |-> e]

\* pd.isna on a scalar
isna(cell) == cell.kind \in {"nan", "none"}

\* hashlib.md5(key.encode('utf-8')).hexdigest(): equal keys give equal
\* digests; distinct keys of the model give distinct digests.
md5(key) == [kind |-> "md5", text |-> key, num |-> 0, exp |-> 0]

\* str(x) of a cell of a CSV column, as Series.astype(str) applies it
\* element by element: NaN becomes the text 'nan' and None the text 'None'.
PyStr(cell) ==
    CASE cell.kind = "nan" -> <<"n", "a", "n">>
      [] cell.kind = "none" -> <<"N", "o", "n", "e">>
      [] OTHER -> cell.text

----------------------------------------------------------------------------
(* Texts.                                                                  *)

IsSpace(c) == c \in {" ", "\t"}

IsDigit(c) == c \in {"0", "1", "2", "3", "4", "5", "6", "7", "8", "9"}

DigitVal(c) ==
    CASE c = "0" -> 0 [] c = "1" -> 1 [] c = "2" -> 2 [] c = "3" -> 3
      [] c = "4" -> 4 [] c = "5" -> 5 [] c = "6" -> 6 [] c = "7" -> 7
      [] c = "8" -> 8 [] c = "9" -> 9

LowerChar(c) ==
    CASE c = "A" -> "a" [] c = "B" -> "b" [] c = "N" -> "n" [] OTHER -> c

\* str.lower()
Lower(s) == [i \in DOMAIN s |-> LowerChar(s[i])]

RECURSIVE DropSpaces(_)
DropSpaces(s) ==
    IF s # <<>> /\ IsSpace(Head(s)) THEN DropSpaces(Tail(s)) ELSE s

\* re.sub(r'\s+', ' ', s): every run of whitespace becomes one space
RECURSIVE CollapseSpaces(_)
CollapseSpaces(s) ==
    IF s = <<>> THEN <<>>
    ELSE IF IsSpace(Head(s)) THEN <<" ">> \o CollapseSpaces(DropSpaces(s))
    ELSE <<Head(s)>> \o CollapseSpaces(Tail(s))

RECURSIVE DropTrailingSpaces(_)
DropTrailingSpaces(s) ==
    IF s # <<>> /\ IsSpace(s[Len(s)])
    THEN DropTrailingSpaces(SubSeq(s, 1, Len(s) - 1))
    ELSE s

\* str.strip()
Strip(s) == DropTrailingSpaces(DropSpaces(s))

\* The sequences over a set, up to a length
RECURSIVE SeqsUpTo(_, _)
SeqsUpTo(S, n) ==
    IF n = 0 THEN {<<>>}
    ELSE LET shorter == SeqsUpTo(S, n - 1)
         IN  shorter \cup {Append(t, c) : t \in shorter, c \in S}

----------------------------------------------------------------------------
(* country_id_from_name                                                    *)

country_id_from_name(name) ==
    LET text == IF isna(name) THEN <<>> ELSE PyStr(name)
        key == Lower(Strip(CollapseSpaces(text)))
    IN  md5(key)

----------------------------------------------------------------------------
(* Numeric coercion:                                                       *)
(*   pd.to_numeric(col.astype(str).str.replace(r'[^0-9.-]', '',            *)
(*                 regex=True), errors='coerce')                           *)

\* .str.replace(r'[^0-9.-]', '', regex=True) on one text
KeepsNumericChar(c) == IsDigit(c) \/ c = "." \/ c = "-"

\* As StripNonNumeric, had the text been parsed as it is
NotStripped(t) == t

StripNonNumeric(t) == SelectSeq(t, KeepsNumericChar)

\* The value of a digit string, most significant digit first
RECURSIVE DigitsValue(_)
DigitsValue(d) ==
    IF d = <<>> THEN 0
    ELSE 10 * DigitsValue(SubSeq(d, 1, Len(d) - 1)) + DigitVal(d[Len(d)])

\* n / 10^e with the trailing zeros of the fraction removed
RECURSIVE Reduced(_, _)
Reduced(n, e) ==
    IF e > 0 /\ n % 10 = 0 THEN Reduced(n \div 10, e - 1) ELSE Num(n, e)

\* pd.to_numeric(..., errors='coerce') on one text: an optional '-', then
\* digits with at most one '.', at least one digit, and nothing else; any
\* other text, the empty one included, is NaN.
to_numeric(t) ==
    LET neg == t # <<>> /\ Head(t) = "-"
        body == IF neg THEN Tail(t) ELSE t
        points == {i \in DOMAIN body : body[i] = "."}
        digits == SelectSeq(body, IsDigit)
        wellFormed == /\ \A i \in DOMAIN body : IsDigit(body[i]) \/ body[i] = "."
                      /\ Cardinality(points) <= 1
                      /\ digits # <<>>
        decimals == IF points = {} THEN 0
                    ELSE Len(body) - (CHOOSE i \in points : TRUE)
        value == DigitsValue(digits)
    IN  IF wellFormed
        THEN Reduced(IF neg THEN 0 - value ELSE value, decimals)
        ELSE NaN

\* One cell of a numeric-like column
coerce_numeric(cell) == to_numeric(StripNonNumeric(PyStr(cell)))

----------------------------------------------------------------------------
(* Frames.                                                                 *)

\* pd.DataFrame(): no columns, no rows
EmptyFrame == [columns |-> <<>>, rows |-> <<>>]

HasCol(df, c) == \E i \in DOMAIN df.columns : df.columns[i] = c

ColCount(df, c) == Cardinality({i \in DOMAIN df.columns : df.columns[i] = c})

ColIdx(df, c) ==
    CHOOSE i \in DOMAIN df.columns :
        /\ df.columns[i] = c
        /\ \A j \in DOMAIN df.columns : df.columns[j] = c => i <= j

\* df[c] of a frame with one column labelled c
Column(df, c) == [r \in DOMAIN df.rows |-> df.rows[r][ColIdx(df, c)]]

\* df.rename(columns={old: new})
rename(df, old, new) ==
    [df EXCEPT !.columns = [i \in DOMAIN @ |-> IF @[i] = old THEN new ELSE @[i]]]

\* df[c] = values: replaces the column(s) labelled c, or appends a column
SetCol(df, c, values) ==
    IF HasCol(df, c)
    THEN [df EXCEPT !.rows =
             [r \in DOMAIN @ |->
                 [i \in DOMAIN df.columns |->
                     IF df.columns[i] = c THEN values[r] ELSE @[r][i]]]]
    ELSE [columns |-> Append(df.columns, c),
          rows |-> [r \in DOMAIN df.rows |-> Append(df.rows[r], values[r])]]

\* df[c] = scalar
SetColScalar(df, c, cell) == SetCol(df, c, [r \in DOMAIN df.rows |-> cell])

\* re.sub(r'\s+', '_', str(c).strip().lower()) on the headers of the CSV
\* files of the model
NormalizedLabel(c) ==
    CASE c = "Nation" -> "nation"
      [] c = "Country" -> "country"
      [] c = "Team" -> "team"
      [] c = "Name" -> "name"
      [] c = "Country Name" -> "country_name"
      [] c = "Gold" -> "gold"
      [] c = "Population" -> "population"
      [] OTHER -> c

normalize_columns(df) ==
    [df EXCEPT !.columns = [i \in DOMAIN @ |-> NormalizedLabel(@[i])]]

\* The labels pd.concat gives the union of two frames: those of the first,
\* then the new ones of the second
UnionColumns(a, b) ==
    a.columns \o SelectSeq(b.columns, LAMBDA c : ~HasCol(a, c))

\* Where df has each of the labels `columns`: 0 where it has no such column
Positions(df, columns) ==
    [i \in DOMAIN columns |->
        IF HasCol(df, columns[i]) THEN ColIdx(df, columns[i]) ELSE 0]

\* The rows of df laid out on the labels `columns`, NaN where df has no
\* such column
ReindexedRows(df, columns) ==
    LET at == Positions(df, columns)
    IN  [r \in DOMAIN df.rows |->
            [i \in DOMAIN columns |-> IF at[i] = 0 THEN NaN ELSE df.rows[r][at[i]]]]

\* One row of df laid out on the labels `columns`
Reindexed(df, r, columns) == ReindexedRows(df, columns)[r]

\* pd.concat([a, b], ignore_index=True, sort=False)
concat(a, b) ==
    LET columns == UnionColumns(a, b)
    IN  [columns |-> columns,
         rows |-> ReindexedRows(a, columns) \o ReindexedRows(b, columns)]

RECURSIVE ConcatAll(_)
ConcatAll(frames) ==
    IF Len(frames) = 1 THEN frames[1]
    ELSE concat(ConcatAll(SubSeq(frames, 1, Len(frames) - 1)), frames[Len(frames)])

----------------------------------------------------------------------------
(* The builders.  A builder returns [raised, frame]: raised is "" when it  *)
(* returns frame, and the name of the exception when it raises.            *)

Returns(df) == [raised |-> "", frame |-> df]
Raises(exception) == [raised |-> exception, frame |-> EmptyFrame]

\* for c in aliases: if c in df.columns: rename it to 'country'; break
RECURSIVE RenameFirstAlias(_, _)
RenameFirstAlias(df, aliases) ==
    IF aliases = <<>> THEN df
    ELSE IF HasCol(df, Head(aliases)) THEN rename(df, Head(aliases), "country")
    ELSE RenameFirstAlias(df, Tail(aliases))

\* if 'country' not in df.columns: df['country'] = None
WithCountry(df) ==
    IF HasCol(df, "country") THEN df ELSE SetColScalar(df, "country", None)

\* df[col] = pd.to_numeric(...) for each of the columns `cols` df has
RECURSIVE CoerceColumns(_, _)
CoerceColumns(df, cols) ==
    IF cols = <<>> THEN df
    ELSE LET c == Head(cols)
             done == IF HasCol(df, c)
                     THEN SetCol(df, c, [r \in DOMAIN df.rows |->
                                            coerce_numeric(Column(df, c)[r])])
                     ELSE df
         IN  CoerceColumns(done, Tail(cols))

\* df['country_id'] = df['country'].astype(str).apply(country_id_from_name).
\* With two columns labelled 'country', df['country'] is a frame, apply
\* hands country_id_from_name a whole column and `if pd.isna(name)` raises.
WithCountryId(df) ==
    IF ColCount(df, "country") > 1 THEN Raises("ValueError")
    ELSE Returns(SetCol(df, "country_id",
                        [r \in DOMAIN df.rows |->
                            country_id_from_name(Str(PyStr(Column(df, "country")[r])))]))

\* re.search(r'(\d{4})', f.name): the first four digits in a row, as an int
FileYear(name) ==
    LET starts == {i \in 1..(Len(name) - 3) :
                      \A j \in i..(i + 3) : IsDigit(name[j])}
    IN  IF starts = {} THEN None
        ELSE LET i == CHOOSE k \in starts : \A l \in starts : k <= l
             IN  Num(DigitsValue(SubSeq(name, i, i + 3)), 0)

\* The body of the loop of read_olympics_files, for one file
OlympicsFrame(f) ==
    LET normalized == normalize_columns(f.csv)
        stamped == SetColScalar(SetColScalar(normalized, "source_file", Str(f.name)),
                                "year", FileYear(f.name))
        unified == WithCountry(RenameFirstAlias(stamped, <<"nation", "country", "team">>))
        coerced == CoerceColumns(unified, <<"gold", "silver", "bronze", "total", "rank">>)
    IN  WithCountryId(coerced)

read_olympics_files(dir) ==
    IF ~dir.exists THEN Returns(EmptyFrame)
    ELSE LET frames == [i \in DOMAIN dir.files |-> OlympicsFrame(dir.files[i])]
         IN  IF \E i \in DOMAIN frames : frames[i].raised # ""
             THEN Raises("ValueError")
             ELSE IF frames = <<>> THEN Returns(EmptyFrame)
             ELSE Returns(ConcatAll([i \in DOMAIN frames |-> frames[i].frame]))

build_olympics_table(dir) == read_olympics_files(dir)

\* re.search(r'(population|area|density|gdp|percapita|index|%|rate)', col)
\* on the labels of the model
IsNumericLike(col) == col \in {"population"}

build_countries_table(csv) ==
    IF ~csv.exists THEN Returns(EmptyFrame)
    ELSE LET normalized == normalize_columns([columns |-> csv.columns, rows |-> csv.rows])
             unified == WithCountry(RenameFirstAlias(normalized,
                                                     <<"country", "name", "country_name">>))
             identified == WithCountryId(unified)
         IN  IF identified.raised # "" THEN identified
             ELSE Returns(CoerceColumns(identified.frame,
                                        SelectSeq(identified.frame.columns, IsNumericLike)))

----------------------------------------------------------------------------
(* upsert_parquet and the join.                                            *)

NoFile == [exists |-> FALSE, columns |-> <<>>, rows |-> <<>>]

\* df.to_parquet(path, index=False)
to_parquet(df) == [exists |-> TRUE, columns |-> df.columns, rows |-> df.rows]

\* pd.read_parquet(path)
read_parquet(file) == [columns |-> file.columns, rows |-> file.rows]

\* The value drop_duplicates and merge compare: every missing value is the
\* same key value
KeyCell(cell) == IF isna(cell) THEN NaN ELSE cell

\* The key of every row of df
RowKeys(df, key_cols) ==
    LET at == Positions(df, key_cols)
    IN  [r \in DOMAIN df.rows |->
            [k \in DOMAIN key_cols |-> KeyCell(df.rows[r][at[k]])]]

KeyOf(df, r, key_cols) == RowKeys(df, key_cols)[r]

\* As KeptRows, had the call said keep='first'
KeptFirstRows(df, key_cols) ==
    LET key == RowKeys(df, key_cols)
    IN  {r \in DOMAIN df.rows : \A q \in DOMAIN df.rows : q < r => key[q] # key[r]}

\* The rows drop_duplicates(subset=key_cols, keep='last') keeps
KeptRows(df, key_cols) ==
    LET key == RowKeys(df, key_cols)
    IN  {r \in DOMAIN df.rows : \A q \in DOMAIN df.rows : q > r => key[q] # key[r]}

\* The rows of df at the positions `keep`, in order
RowsAt(df, keep) ==
    LET at == SelectSeq([r \in DOMAIN df.rows |-> r], LAMBDA r : r \in keep)
    IN  [i \in DOMAIN at |-> df.rows[at[i]]]

\* df.drop_duplicates(subset=key_cols, keep='last'): an empty frame is
\* returned as it is; a missing key column is a KeyError.
drop_duplicates(df, key_cols) ==
    IF df.rows = <<>> THEN Returns(df)
    ELSE IF \E k \in DOMAIN key_cols : ~HasCol(df, key_cols[k]) THEN Raises("KeyError")
    ELSE Returns([columns |-> df.columns, rows |-> RowsAt(df, KeptRows(df, key_cols))])

\* upsert_parquet(df, out_path, key_cols): [raised, frame, file], file being
\* out_path after the call
upsert_parquet(df, file, key_cols) ==
    LET combined == IF file.exists
                    THEN drop_duplicates(concat(read_parquet(file), df), key_cols)
                    ELSE Returns(df)
    IN  IF combined.raised # ""
        THEN [raised |-> combined.raised, frame |-> EmptyFrame, file |-> file]
        ELSE [raised |-> "", frame |-> combined.frame, file |-> to_parquet(combined.frame)]

\* The label merge gives a column: suffixed when the other side has it too
Suffixed(c, other, on, suffix) ==
    IF c # on /\ HasCol(other, c) THEN c \o suffix ELSE c

\* The rows of `right` whose key equals that of row r of `left`, in order
Matches(left, r, right, on) ==
    LET key == KeyOf(left, r, <<on>>)
        keys == RowKeys(right, <<on>>)
    IN  SelectSeq([q \in DOMAIN right.rows |-> q], LAMBDA q : keys[q] = key)

\* The cells of row q of `right` without the key column; NaN when q = 0
RightCells(right, q, on) ==
    LET kept == SelectSeq([i \in DOMAIN right.columns |-> i],
                          LAMBDA i : right.columns[i] # on)
    IN  [i \in DOMAIN kept |-> IF q = 0 THEN NaN ELSE right.rows[q][kept[i]]]

RECURSIVE LeftJoinRows(_, _, _, _)
LeftJoinRows(left, right, on, r) ==
    IF r > Len(left.rows) THEN <<>>
    ELSE LET m == Matches(left, r, right, on)
             joined == IF m = <<>> THEN <<left.rows[r] \o RightCells(right, 0, on)>>
                       ELSE [i \in DOMAIN m |-> left.rows[r] \o RightCells(right, m[i], on)]
         IN  joined \o LeftJoinRows(left, right, on, r + 1)

\* left.merge(right, on=on, how='left', suffixes=('_olymp', '_country'))
merge(left, right, on) ==
    IF ~HasCol(left, on) \/ ~HasCol(right, on) THEN Raises("KeyError")
    ELSE Returns(
        [columns |->
            [i \in DOMAIN left.columns |-> Suffixed(left.columns[i], right, on, "_olymp")]
            \o [i \in DOMAIN SelectSeq(right.columns, LAMBDA c : c # on) |->
                   Suffixed(SelectSeq(right.columns, LAMBDA c : c # on)[i], left, on,
                            "_country")],
         rows |-> LeftJoinRows(left, right, on, 1)])

----------------------------------------------------------------------------
(* The state before anything has run: no parquet file exists.              *)

NoSource == [side |-> "", exists |-> FALSE, name |-> <<>>, columns |-> <<>>, rows |-> <<>>]

NoCall(path) ==
    [path |-> path, made |-> FALSE, prior |-> NoFile, incoming |-> EmptyFrame,
     returned |-> EmptyFrame, repeated |-> FALSE, earlier |-> EmptyFrame]

\* Nothing has run; `path` is the path the direct calls will be made on
Idle(path) ==
    /\ parquet = [countries |-> NoFile, olympics |-> NoFile, denormalized |-> NoFile]
    /\ pc = "idle"
    /\ runs = 0
    /\ countries_written = EmptyFrame
    /\ olympics_written = EmptyFrame
    /\ missing = {}
    /\ raised = ""
    /\ source = NoSource
    /\ built = EmptyFrame
    /\ call = NoCall(path)

Init == Idle("countries")

\* key_cols as run_pipeline passes them
KeyCols(path) ==
    IF path = "countries" THEN <<"country_id">> ELSE <<"country_id", "year">>

----------------------------------------------------------------------------
(* Direct calls of upsert_parquet on one path, with arbitrary batches.     *)

Token(t) == md5(t)

StoreColumns(path) ==
    IF path = "countries" THEN <<"country_id", "population">>
    ELSE <<"country_id", "year", "gold">>

StoreRows(path) ==
    IF path = "countries"
    THEN {<<Token(<<"a">>), Num(v, 0)>> : v \in {1, 2}}
         \cup {<<Token(<<"b">>), Num(1, 0)>>}
    ELSE {<<Token(<<"a">>), Num(2000, 0), Num(v, 0)>> : v \in {1, 2}}
         \cup {<<Token(<<"a">>), None, Num(1, 0)>>}

\* The batches: pd.DataFrame(), and the frames of up to MaxBatch rows
Batches(path) ==
    {EmptyFrame} \cup
    {[columns |-> StoreColumns(path), rows |-> r] : r \in SeqsUpTo(StoreRows(path), MaxBatch)}

\* upsert_parquet(df, OUT_DIR / (path + '.parquet'), key_cols)
UpsertCall(df) ==
    LET result == upsert_parquet(df, parquet[call.path], KeyCols(call.path))
    IN  /\ parquet' = [parquet EXCEPT ![call.path] = result.file]
        /\ raised' = result.raised
        /\ call' = [path |-> call.path, made |-> TRUE, prior |-> parquet[call.path],
                    incoming |-> df, returned |-> result.frame,
                    repeated |-> call.made /\ raised = "" /\ df = call.incoming,
                    earlier |-> call.returned]
        /\ UNCHANGED <<pc, runs, countries_written, olympics_written, missing, source,
                       built>>

\* The path the calls of a behaviour are made on
InitStore == \E path \in {"countries", "olympics"} : Idle(path)

Upsert == \E df \in Batches(call.path) : UpsertCall(df)

NextStore == Upsert

SpecStore == InitStore /\ [][NextStore]_vars

----------------------------------------------------------------------------
(* Runs of the pipeline.  A run is one step: the program is single-        *)
(* threaded and nothing else writes the files.  A run that raises leaves   *)
(* the files it has written so far.                                        *)

\* The CSV files of the runs
CountryCsvRows == {<<Str(n), Str(<<"1">>)>> : n \in {<<"a">>, <<"A">>}}

PipelineCsvs ==
    {NoFile} \cup
    {[exists |-> TRUE, columns |-> <<"Country", "Population">>, rows |-> r] :
        r \in SeqsUpTo(CountryCsvRows, MaxCsvRows)}

OlympicsCsvRows == {<<Str(t), Str(<<"3">>)>> : t \in {<<"a">>, <<"b">>}}

\* In the order of sorted(OLY_DIR.glob('*.csv'))
FileNames == <<<<"r", "2", "0", "0", "0">>, <<"s">>>>

NoDir == [exists |-> FALSE, files |-> <<>>]

\* The directories holding `names`: each file with its own rows
DirsOf(names) ==
    {[exists |-> TRUE,
      files |-> [i \in DOMAIN names |->
                    [name |-> FileNames[names[i]],
                     csv |-> [columns |-> <<"Team", "Gold">>, rows |-> rows[i]]]]] :
        rows \in {x \in SeqsUpTo(SeqsUpTo(OlympicsCsvRows, MaxFileRows), MaxFiles) :
                     Len(x) = Len(names)}}

PipelineDirs ==
    {NoDir} \cup
    UNION {DirsOf(names) :
              names \in {n \in SeqsUpTo(DOMAIN FileNames, MaxFiles) :
                            \A i, j \in DOMAIN n : i < j => n[i] < n[j]}}

run_pipeline(csv, dir) ==
    LET countries == build_countries_table(csv)
        cw == upsert_parquet(countries.frame, parquet.countries, KeyCols("countries"))
        olympics == build_olympics_table(dir)
        ow == upsert_parquet(olympics.frame, parquet.olympics, KeyCols("olympics"))
        merged == merge(ow.frame, cw.frame, "country_id")
        afterCountries == [parquet EXCEPT !.countries = cw.file]
        afterOlympics == [afterCountries EXCEPT !.olympics = ow.file]
        Fails(exception, files, c, o) ==
            /\ pc' = "raised"
            /\ raised' = exception
            /\ parquet' = files
            /\ countries_written' = c
            /\ olympics_written' = o
    IN  /\ runs' = runs + 1
        /\ missing' = (IF csv.exists THEN {} ELSE {"countries_csv"})
                      \cup (IF dir.exists THEN {} ELSE {"olympics_dir"})
        /\ IF countries.raised # ""
           THEN Fails(countries.raised, parquet, EmptyFrame, EmptyFrame)
           ELSE IF cw.raised # ""
           THEN Fails(cw.raised, parquet, EmptyFrame, EmptyFrame)
           ELSE IF olympics.raised # ""
           THEN Fails(olympics.raised, afterCountries, cw.frame, EmptyFrame)
           ELSE IF ow.raised # ""
           THEN Fails(ow.raised, afterCountries, cw.frame, EmptyFrame)
           ELSE IF merged.raised # ""
           THEN Fails(merged.raised, afterOlympics, cw.frame, ow.frame)
           ELSE /\ pc' = "done"
                /\ raised' = ""
                /\ parquet' = [afterOlympics EXCEPT !.denormalized = to_parquet(merged.frame)]
                /\ countries_written' = cw.frame
                /\ olympics_written' = ow.frame
        /\ UNCHANGED <<source, built, call>>

RunPipeline ==
    /\ runs < MaxRuns
    /\ \E csv \in PipelineCsvs, dir \in PipelineDirs : run_pipeline(csv, dir)

NextPipeline == RunPipeline

SpecPipeline == Init /\ [][NextPipeline]_vars

----------------------------------------------------------------------------
(* One call of a builder on one source.                                    *)

\* What the builder read, for a directory of at most one file
SourceOfDir(dir) ==
    IF dir.files = <<>>
    THEN [side |-> "olympics", exists |-> dir.exists, name |-> <<>>,
          columns |-> <<>>, rows |-> <<>>]
    ELSE [side |-> "olympics", exists |-> TRUE, name |-> dir.files[1].name,
          columns |-> dir.files[1].csv.columns, rows |-> dir.files[1].csv.rows]

SourceOfCsv(csv) ==
    [side |-> "countries", exists |-> csv.exists, name |-> <<>>,
     columns |-> csv.columns, rows |-> csv.rows]

Built(result) ==
    /\ pc = "idle"
    /\ pc' = IF result.raised = "" THEN "built" ELSE "raised"
    /\ raised' = result.raised
    /\ built' = result.frame
    /\ UNCHANGED <<parquet, runs, countries_written, olympics_written, missing, call>>

ReadOlympics(dir) ==
    /\ Built(read_olympics_files(dir))
    /\ source' = SourceOfDir(dir)

BuildCountries(csv) ==
    /\ Built(build_countries_table(csv))
    /\ source' = SourceOfCsv(csv)

OneFileDir(frame) ==
    [exists |-> TRUE, files |-> <<[name |-> FileNames[1], csv |-> frame]>>]

CsvFile(frame) == [exists |-> TRUE, columns |-> frame.columns, rows |-> frame.rows]

(* Sources whose alias columns vary: any of the three aliases of a side,   *)
(* in the order of the file, and one row of names.                         *)

OlympicsAliases == <<"nation", "country", "team">>
CountriesAliases == <<"country", "name", "country_name">>

AliasHeaders(side) ==
    IF side = "olympics" THEN <<"Nation", "Country", "Team">>
    ELSE <<"Country", "Name", "Country Name">>

NumericHeader(side) == IF side = "olympics" THEN "Gold" ELSE "Population"

NameAlphabet == {"a", "A", " "}

\* An empty CSV field is read as NaN, any other as its text
NameCells == {NaN} \cup {Str(t) : t \in SeqsUpTo(NameAlphabet, MaxName) \ {<<>>}}

\* The strictly increasing sequences of positions of s
Picks(s) ==
    {n \in SeqsUpTo(DOMAIN s, Len(s)) : \A i, j \in DOMAIN n : i < j => n[i] < n[j]}

AliasFrames(side) ==
    UNION {{[columns |-> [i \in DOMAIN pick |-> AliasHeaders(side)[pick[i]]]
                         \o <<NumericHeader(side)>>,
             rows |-> <<names \o <<Str(<<"1">>)>>>>] :
               names \in {x \in SeqsUpTo(NameCells, Len(AliasHeaders(side))) :
                             Len(x) = Len(pick)}} :
           pick \in Picks(AliasHeaders(side))}

ReadAliasedOlympics ==
    /\ pc = "idle"
    /\ \E dir \in {NoDir} \cup {OneFileDir(f) : f \in AliasFrames("olympics")} :
          ReadOlympics(dir)

BuildAliasedCountries ==
    /\ pc = "idle"
    /\ \E csv \in {NoFile} \cup {CsvFile(f) : f \in AliasFrames("countries")} :
          BuildCountries(csv)

NextBuild == ReadAliasedOlympics \/ BuildAliasedCountries

SpecBuild == Init /\ [][NextBuild]_vars

(* Sources whose numeric-like column varies.                               *)

\* A digit, the decimal point, the minus sign and a character the regular
\* expression removes
NumericAlphabet == {"1", ".", "-", ","}

NumericCells == {NaN} \cup {Str(t) : t \in SeqsUpTo(NumericAlphabet, MaxText) \ {<<>>}}

\* The cells of at most one character
ShortCells == {c \in NumericCells : Len(c.text) <= 1}

\* One row, or two rows, the second of a short cell
NumericFrames(side) ==
    LET Row(cell) == <<Str(<<"a">>), cell>>
    IN  {[columns |-> <<"Country", NumericHeader(side)>>, rows |-> rows] :
            rows \in {<<Row(c)>> : c \in NumericCells}
                     \cup {<<Row(c), Row(d)>> : c \in NumericCells, d \in ShortCells}}

ReadNumericOlympics ==
    /\ pc = "idle"
    /\ \E dir \in {OneFileDir(f) : f \in NumericFrames("olympics")} : ReadOlympics(dir)

BuildNumericCountries ==
    /\ pc = "idle"
    /\ \E csv \in {CsvFile(f) : f \in NumericFrames("countries")} : BuildCountries(csv)

NextCoerce == ReadNumericOlympics \/ BuildNumericCountries

SpecCoerce == Init /\ [][NextCoerce]_vars

----------------------------------------------------------------------------
(* Properties of upsert_parquet, checked under SpecStore.                  *)

\* The key values of the rows of a frame
Keys(df, key_cols) == {KeyOf(df, r, key_cols) : r \in DOMAIN df.rows}

\* The rows of df with the key `key`, in order, laid out on `columns`
RowsWithKey(df, key, key_cols, columns) ==
    LET at == SelectSeq([r \in DOMAIN df.rows |-> r],
                        LAMBDA r : KeyOf(df, r, key_cols) = key)
    IN  [i \in DOMAIN at |-> Reindexed(df, at[i], columns)]

\* The last row of df with the key `key`, laid out on `columns`
LastRowWithKey(df, key, key_cols, columns) ==
    LET rows == RowsWithKey(df, key, key_cols, columns)
    IN  rows[Len(rows)]

\* C1: after a call of upsert_parquet that found a persisted table, the
\* returned table is the persisted one and, for every key of the prior
\* table or of the batch, it holds exactly one row: the last row of the
\* batch with that key if the batch has one, otherwise the prior row.
LastWriteWins ==
    (call.made /\ call.prior.exists /\ raised = "") =>
        LET key_cols == KeyCols(call.path)
            merged == call.returned
            stored == parquet[call.path]
            incoming == Keys(call.incoming, key_cols)
        IN  /\ stored = to_parquet(merged)
            /\ Keys(merged, key_cols) = Keys(call.prior, key_cols) \cup incoming
            /\ \A key \in Keys(merged, key_cols) :
                  RowsWithKey(merged, key, key_cols, merged.columns) =
                      <<IF key \in incoming
                        THEN LastRowWithKey(call.incoming, key, key_cols, merged.columns)
                        ELSE LastRowWithKey(call.prior, key, key_cols, merged.columns)>>

\* A prior table holding k -> 2 and another key met a batch holding
\* k -> 2, then k -> 1, and the merged table holds the other key and
\* k -> 1.
LastWriteWinsWitness ==
    /\ call.made
    /\ call.path = "countries"
    /\ call.prior.exists
    /\ call.prior.rows = <<<<Token(<<"a">>), Num(2, 0)>>, <<Token(<<"b">>), Num(1, 0)>>>>
    /\ call.incoming.rows = <<<<Token(<<"a">>), Num(2, 0)>>, <<Token(<<"a">>), Num(1, 0)>>>>
    /\ call.returned.rows = <<<<Token(<<"b">>), Num(1, 0)>>, <<Token(<<"a">>), Num(1, 0)>>>>
    /\ parquet.countries.rows = call.returned.rows

\* C2: a call of upsert_parquet that repeats the batch of the call before
\* it leaves the persisted table as that call left it and returns the
\* table that call returned.
UpsertIdempotent ==
    call.repeated =>
        /\ raised = ""
        /\ parquet[call.path] = call.prior
        /\ call.returned = call.earlier

\* C5: a call of upsert_parquet with an empty batch on a persisted table
\* raises nothing and leaves the rows of the table as they were.
EmptyBatchIsNoOp ==
    (call.made /\ call.prior.exists /\ call.incoming = EmptyFrame) =>
        /\ raised = ""
        /\ parquet[call.path].rows = call.prior.rows

\* C8: the persisted table holds at most one row per key.
OneRowPerKey ==
    LET stored == parquet[call.path]
    IN  \A r, q \in DOMAIN stored.rows :
            KeyOf(stored, r, KeyCols(call.path)) = KeyOf(stored, q, KeyCols(call.path))
                => r = q

\* C9: a call of upsert_parquet keeps every key of the persisted table,
\* and every row of it whose key the batch does not hold is a row of the
\* table after the call.
RowsOnlyOverwritten ==
    call.made =>
        LET key_cols == KeyCols(call.path)
            stored == parquet[call.path]
        IN  \A r \in DOMAIN call.prior.rows :
                LET key == KeyOf(call.prior, r, key_cols)
                IN  /\ key \in Keys(stored, key_cols)
                    /\ key \notin Keys(call.incoming, key_cols) =>
                          \E q \in DOMAIN stored.rows :
                              stored.rows[q] = Reindexed(call.prior, r, stored.columns)

----------------------------------------------------------------------------
(* Properties of run_pipeline, checked under SpecPipeline.                 *)

\* C3: the denormalized table a run writes has as many rows as the fact
\* table the fact upsert returned.
JoinComplete ==
    pc = "done" => Len(parquet.denormalized.rows) = Len(olympics_written.rows)

\* C6: a run that finds a source absent raises nothing and leaves the
\* three artifacts written.
MissingSourceNotFatal ==
    (runs > 0 /\ missing # {}) =>
        /\ pc = "done"
        /\ raised = ""
        /\ \A path \in DOMAIN parquet : parquet[path].exists

----------------------------------------------------------------------------
(* Properties of the builders, checked under SpecBuild and SpecCoerce.     *)

Aliases(side) == IF side = "olympics" THEN OlympicsAliases ELSE CountriesAliases

\* The columns of the source that bear an alias, in the order of priority
AliasColumns(src) ==
    SelectSeq(Aliases(src.side),
              LAMBDA a : \E i \in DOMAIN src.columns : NormalizedLabel(src.columns[i]) = a)

\* The cell of row r of the source under the alias a
AliasCell(src, r, a) ==
    src.rows[r][CHOOSE i \in DOMAIN src.columns : NormalizedLabel(src.columns[i]) = a]

\* The name of row r of the source is missing: the source has no alias
\* column, or the cell of the first alias is null
NameMissing(src, r) ==
    \/ AliasColumns(src) = <<>>
    \/ isna(AliasCell(src, r, AliasColumns(src)[1]))

\* C4: in the table a builder returns, every row whose name is missing
\* has the country_id of the empty name, which is that of a null name.
MissingNameIsEmptyName ==
    (pc = "built" /\ source.exists) =>
        \A r \in DOMAIN source.rows :
            NameMissing(source, r) =>
                /\ Column(built, "country_id")[r] = country_id_from_name(Str(<<>>))
                /\ Column(built, "country_id")[r] = country_id_from_name(NaN)

\* C10: from a source with more than one alias column the builder returns
\* a frame with one column 'country', which holds the cells of the alias
\* of highest priority, and with the country_id of each of them.
FirstAliasWins ==
    (pc # "idle" /\ source.exists /\ Len(AliasColumns(source)) > 1) =>
        /\ raised = ""
        /\ ColCount(built, "country") = 1
        /\ \A r \in DOMAIN source.rows :
              LET cell == AliasCell(source, r, AliasColumns(source)[1])
              IN  /\ Column(built, "country")[r] = cell
                  /\ Column(built, "country_id")[r] =
                         country_id_from_name(Str(PyStr(cell)))

\* 10^n
RECURSIVE Pow10(_)
Pow10(n) == IF n = 0 THEN 1 ELSE 10 * Pow10(n - 1)

\* The characters of a text that are a digit, '.' or '-', in order
RECURSIVE Remainder(_)
Remainder(t) ==
    IF t = <<>> THEN <<>>
    ELSE (IF Head(t) \in {"0", "1", "2", "3", "4", "5", "6", "7", "8", "9", ".", "-"}
          THEN <<Head(t)>> ELSE <<>>) \o Remainder(Tail(t))

\* The text is a decimal numeral: -?[0-9]*(\.[0-9]*)? with a digit in it
IsNumeral(t) ==
    \E a \in 0..1, b \in 0..Len(t), c \in 0..1, d \in 0..Len(t) :
        /\ a + b + c + d = Len(t)
        /\ b + d > 0
        /\ a = 1 => t[1] = "-"
        /\ \A i \in (a + 1)..(a + b) : IsDigit(t[i])
        /\ c = 1 => t[a + b + 1] = "."
        /\ \A i \in (a + b + c + 1)..Len(t) : IsDigit(t[i])

\* The number `cell` is the one the numeral t writes
IsValueOf(cell, t) ==
    LET digits == SelectSeq(t, IsDigit)
        decimals == Len(t) - Len(SelectSeq(t, LAMBDA ch : ch # "."))
        after == IF decimals = 0 THEN 0
                 ELSE Len(t) - (CHOOSE i \in DOMAIN t : t[i] = ".")
        magnitude == DigitsValue(digits)
        value == IF t[1] = "-" THEN 0 - magnitude ELSE magnitude
    IN  /\ cell.kind = "num"
        /\ cell.num * Pow10(after) = value * Pow10(cell.exp)

\* C7: a builder returns as many rows as the source has, and the cell of
\* a numeric-like column is the number its text writes once every
\* character that is no digit, '.' or '-' is removed, and a missing value
\* when what remains writes no number; it raises nothing.
CoercionTolerant ==
    (pc # "idle" /\ source.exists) =>
        /\ raised = ""
        /\ Len(built.rows) = Len(source.rows)
        /\ \A r \in DOMAIN source.rows :
              LET text == Remainder(PyStr(source.rows[r][2]))
                  cell == Column(built, NormalizedLabel(source.columns[2]))[r]
              IN  IF IsNumeral(text) THEN IsValueOf(cell, text) ELSE cell = NaN

\* A file of two rows, "1,1" and ",", gave the rows 11 and NaN
CoercionTolerantWitness ==
    /\ pc = "built"
    /\ Len(source.rows) = 2
    /\ source.rows[1][2] = Str(<<"1", ",", "1">>)
    /\ source.rows[2][2] = Str(<<",">>)
    /\ Column(built, NormalizedLabel(source.columns[2])) = <<Num(11, 0), NaN>>

====
